---- MODULE Spec2Model ----
(***************************************************************************)
(* State-machine model of the holidays_jp cache refresh engine             *)
(* (src/src/cache.rs), its configuration (src/src/config.rs) and the       *)
(* lookup service that owns the in-memory map (src/src/holiday_service.rs).*)
(*                                                                         *)
(* Time is counted in ticks of 1/TicksPerHour hour.  Option<T> values are  *)
(* sequences: <<>> is None and <<x>> is Some(x).  u64 values are kept at   *)
(* their full width as four 16-bit limbs, most significant first.          *)
(***************************************************************************)
EXTENDS Integers, Sequences, FiniteSets, TLC

\* ------------------------------------------------------------------ bounds
TicksPerHour == 2
InitNow == 4
MaxTime == 6
MaxMaxAge == 2
MaxInterval == 1
MaxInitUpdated == 6

\* ------------------------------------------------------- Option<T> helpers
None == << >>
Some(x) == << x >>
is_none(o) == o = << >>
is_some(o) == o # << >>
unwrap(o) == o[1]

\* ------------------------------------------------------------ u64 numbers
LimbBase == 65536

\* i64 -> u64 by `as`: the two's complement bit pattern, for |n| < LimbBase.
AsU64(n) ==
    IF n >= 0
    THEN << 0, 0, 0, n >>
    ELSE << LimbBase - 1, LimbBase - 1, LimbBase - 1, LimbBase + n >>

RECURSIVE U64GtFrom(_, _, _)
U64GtFrom(a, b, i) ==
    IF i > 4 THEN FALSE
    ELSE IF a[i] # b[i] THEN a[i] > b[i]
    ELSE U64GtFrom(a, b, i + 1)

\* a > b on u64
U64Gt(a, b) == U64GtFrom(a, b, 1)

\* chrono Duration::num_hours: whole hours, truncated toward zero.
num_hours(d) ==
    IF d >= 0 THEN d \div TicksPerHour ELSE -((-d) \div TicksPerHour)

\* ------------------------------------------------- chrono date parsing
\* A string is a sequence of one-character strings.
Digits == { "0", "1", "2", "3", "4", "5", "6", "7", "8", "9" }

DigitVal(c) ==
    CASE c = "0" -> 0 [] c = "1" -> 1 [] c = "2" -> 2 [] c = "3" -> 3
      [] c = "4" -> 4 [] c = "5" -> 5 [] c = "6" -> 6 [] c = "7" -> 7
      [] c = "8" -> 8 [] c = "9" -> 9

DigitChar(n) ==
    CASE n = 0 -> "0" [] n = 1 -> "1" [] n = 2 -> "2" [] n = 3 -> "3"
      [] n = 4 -> "4" [] n = 5 -> "5" [] n = 6 -> "6" [] n = 7 -> "7"
      [] n = 8 -> "8" [] n = 9 -> "9"

Drop(s, n) == SubSeq(s, n + 1, Len(s))

RECURSIVE trim_start(_)
trim_start(s) ==
    IF s # << >> /\ Head(s) = " " THEN trim_start(Tail(s)) ELSE s

RECURSIVE CountDigits(_, _)
\* how many of the first `max` characters of s are leading digits
CountDigits(s, max) ==
    IF max = 0 \/ s = << >> \/ Head(s) \notin Digits THEN 0
    ELSE 1 + CountDigits(Tail(s), max - 1)

RECURSIVE DigitsValue(_, _)
DigitsValue(s, acc) ==
    IF s = << >> THEN acc ELSE DigitsValue(Tail(s), acc * 10 + DigitVal(Head(s)))

\* Longest year literal the model reads after an explicit sign (usize::MAX in
\* chrono; the model's strings are shorter than this).
MaxSignedDigits == 6

\* The one element of a singleton set: The({ e(x) : x \in { v } }) is e(v)
\* with v evaluated once.
The(S) == CHOOSE y \in S : TRUE

\* chrono scan::number(s, min, max): between min and max leading digits.
scan_number(s, min, max) ==
    The({ IF n < min
          THEN [ok |-> FALSE, val |-> 0, rest |-> s]
          ELSE [ok |-> TRUE, val |-> DigitsValue(SubSeq(s, 1, n), 0),
                rest |-> Drop(s, n)] :
          n \in { CountDigits(s, max) } })

Negated(r) == [ok |-> r.ok, val |-> 0 - r.val, rest |-> r.rest]

\* One numeric item (%Y is signed and 4 wide, %m and %d unsigned and 2 wide).
parse_numeric(s0, item) ==
    The({ IF item = "%Y"
          THEN IF s # << >> /\ Head(s) = "-"
               THEN The({ Negated(r) : r \in { scan_number(Tail(s), 1, MaxSignedDigits) } })
               ELSE IF s # << >> /\ Head(s) = "+"
               THEN scan_number(Tail(s), 1, MaxSignedDigits)
               ELSE scan_number(s, 1, 4)
          ELSE scan_number(s, 1, 2) :
          s \in { trim_start(s0) } })

NumericItems == { "%Y", "%m", "%d" }

NoFields == [y |-> None, m |-> None, d |-> None]

SetField(p, item, v) ==
    CASE item = "%Y" -> [p EXCEPT !.y = Some(v)]
      [] item = "%m" -> [p EXCEPT !.m = Some(v)]
      [] item = "%d" -> [p EXCEPT !.d = Some(v)]

RECURSIVE parse_items(_, _, _)
\* chrono format::parse: consume the items of fmt from s in order; trailing
\* input is an error.
parse_items(s, fmt, p) ==
    IF fmt = << >>
    THEN [ok |-> s = << >>, fields |-> p]
    ELSE IF Head(fmt) \in NumericItems
    THEN The({ IF r.ok
               THEN parse_items(r.rest, Tail(fmt), SetField(p, Head(fmt), r.val))
               ELSE [ok |-> FALSE, fields |-> p] :
               r \in { parse_numeric(s, Head(fmt)) } })
    ELSE IF s # << >> /\ Head(s) = Head(fmt)
    THEN parse_items(Tail(s), Tail(fmt), p)
    ELSE [ok |-> FALSE, fields |-> p]

IsLeap(y) == (y % 4 = 0 /\ y % 100 # 0) \/ y % 400 = 0

DaysInMonth(y, m) ==
    IF m = 2 THEN (IF IsLeap(y) THEN 29 ELSE 28)
    ELSE IF m \in { 4, 6, 9, 11 } THEN 30 ELSE 31

\* NaiveDate::from_ymd_opt (chrono's years run from -262143 to 262142)
ValidYmd(y, m, d) ==
    /\ y >= 0 - 262143 /\ y <= 262142
    /\ m >= 1 /\ m <= 12
    /\ d >= 1 /\ d <= DaysInMonth(y, m)

\* NaiveDate::parse_from_str(s, fmt): Some([y, m, d]) or None on any error.
parse_from_str(s, fmt) ==
    The({ IF /\ r.ok
             /\ is_some(r.fields.y) /\ is_some(r.fields.m) /\ is_some(r.fields.d)
             /\ ValidYmd(unwrap(r.fields.y), unwrap(r.fields.m), unwrap(r.fields.d))
          THEN Some([y |-> unwrap(r.fields.y), m |-> unwrap(r.fields.m),
                     d |-> unwrap(r.fields.d)])
          ELSE None :
          r \in { parse_items(s, fmt, NoFields) } })

RECURSIVE PadDigits(_, _)
\* the decimal digits of n >= 0, zero-padded on the left to `width`
PadDigits(n, width) ==
    IF n < 10 /\ width <= 1 THEN << DigitChar(n) >>
    ELSE Append(PadDigits(n \div 10, width - 1), DigitChar(n % 10))

\* NaiveDate::format("%Y-%m-%d")
format_ymd(date) ==
    LET yy == IF date.y >= 0 /\ date.y <= 9999 THEN PadDigits(date.y, 4)
              ELSE IF date.y < 0 THEN << "-" >> \o PadDigits(0 - date.y, 4)
              ELSE << "+" >> \o PadDigits(date.y, 4)
    IN  yy \o << "-" >> \o PadDigits(date.m, 2) \o << "-" >> \o PadDigits(date.d, 2)

FmtYmdSlash == << "%Y", "/", "%m", "/", "%d" >>

\* ------------------------------------------------------------ holiday maps
\* HashMap<String, String>: a set of <<key, value>> pairs, one per key.
EmptyMap == { }

map_get(m, k) ==
    IF \E p \in m : p[1] = k
    THEN Some((CHOOSE p \in m : p[1] = k)[2])
    ELSE None

map_insert(m, k, v) == { p \in m : p[1] # k } \cup { << k, v >> }

\* ------------------------------------------------------------- CSV parsing
\* The decoded body as the csv crate tokenises it: a sequence of rows, each
\* a sequence of fields.  csv::Reader::from_reader keeps the defaults: the
\* first row is the header and is never yielded, and a row whose field
\* count differs from the first row's is an UnequalLengths error.
RECURSIVE parse_records(_, _, _)
parse_records(rows, nfields, holidays) ==
    IF rows = << >>
    THEN [ok |-> TRUE, val |-> holidays]
    ELSE The({ IF Len(record) # nfields
               THEN [ok |-> FALSE, val |-> EmptyMap]
               ELSE IF Len(record) >= 2
               THEN The({ IF is_some(date)
                          THEN parse_records(Tail(rows), nfields,
                                   map_insert(holidays, format_ymd(unwrap(date)),
                                              record[2]))
                          ELSE parse_records(Tail(rows), nfields, holidays) :
                          date \in { parse_from_str(record[1], FmtYmdSlash) } })
               ELSE parse_records(Tail(rows), nfields, holidays) :
               record \in { Head(rows) } })

\* Variant: a body without a header row is an error.
parse_csv_requiring_header(csv_content) ==
    IF csv_content = << >>
    THEN [ok |-> FALSE, val |-> EmptyMap]
    ELSE parse_records(Tail(csv_content), Len(Head(csv_content)), EmptyMap)

parse_csv(csv_content) ==
    IF csv_content = << >>
    THEN [ok |-> TRUE, val |-> EmptyMap]
    ELSE parse_records(Tail(csv_content), Len(Head(csv_content)), EmptyMap)

\* ------------------------------------------------------------------- state
VARIABLES
    config,     \* Config.cache of the HolidayCache (fixed at construction)
    now,        \* Utc::now(), in ticks
    file,       \* the cache file at cache_path
    holidays,   \* HolidayService.holidays: Option<HashMap>
    remote,     \* what the source URL currently serves
    call,       \* the initialize() call that has just returned, if any
    history     \* bookkeeping across calls: when download_and_cache last
                \* returned Ok, and when a HEAD round trip last completed
                \* against the snapshot now on disk and what the source
                \* serves now

vars == << config, now, file, holidays, remote, call, history >>

Strategies == { "TimeBased", "EtagBased", "Hybrid", "AlwaysRefresh", "NeverRefresh" }

\* ------------------------------------------------------- the remote source
\* A response header: None when absent, else its bytes and whether they are
\* all visible ASCII (HeaderValue::to_str fails otherwise).
Header(text) == Some([bytes |-> text, visible_ascii |-> TRUE])
OpaqueHeader(text) == Some([bytes |-> text, visible_ascii |-> FALSE])

\* response.headers().get(name).and_then(|h| h.to_str().ok()).map(to_string)
header_string(h) ==
    IF is_some(h) /\ unwrap(h).visible_ascii THEN Some(unwrap(h).bytes) ELSE None

D20230101 == << "2", "0", "2", "3", "/", "0", "1", "/", "0", "1" >>
D2023_1_9 == << "2", "0", "2", "3", "/", "1", "/", "9" >>
D20230211 == << "2", "0", "2", "3", "/", "0", "2", "/", "1", "1" >>
D20230230 == << "2", "0", "2", "3", "/", "0", "2", "/", "3", "0" >>
HeaderRow == << << "d", "a", "t", "e" >>, << "n", "a", "m", "e" >> >>

BodyA ==
    << HeaderRow,
       << D20230101, << "N", "Y" >> >>,
       << D2023_1_9, << "C", "A" >> >> >>

BodyB ==
    << HeaderRow,
       << D20230101, << "G", "J" >> >>,
       << D20230230, << "X" >> >>,
       << D20230211, << "F", "D" >> >>,
       << D20230101, << "N", "D" >> >> >>

\* a row with a third field after a two-field header
BodyRagged ==
    << HeaderRow,
       << D20230101, << "N", "Y" >> >>,
       << D20230211, << "F", "D" >>, << "x" >> >> >>

\* The decoded text of a response body, by the name the state keeps for it.
BodyText(name) ==
    CASE name = "A" -> BodyA
      [] name = "B" -> BodyB
      [] name = "Ragged" -> BodyRagged


Remotes ==
    { [etag |-> Header("abc"), last_modified |-> Header("mon"), body |-> "A"],
      [etag |-> Header("ABC"), last_modified |-> None, body |-> "B"],
      [etag |-> None, last_modified |-> Header("tue"), body |-> "A"],
      [etag |-> OpaqueHeader("bin"), last_modified |-> None, body |-> "Ragged"] }

\* What the network does to one request.
HeadResponses == { "send_err", "status_err", "ok" }
GetResponses == { "send_err", "status_err", "body_err", "ok" }
\* What the file system does to create_dir_all + fs::write: the directory
\* cannot be made, the file cannot be opened, the write stops part-way
\* (the file is already truncated), or all bytes are written.
WriteResults == { "mkdir_err", "open_err", "partial", "ok" }

\* ---------------------------------------------------------- the cache file
\* content is None when the bytes on disk do not decode as a CacheData.
NoFile == [exists |-> FALSE, content |-> None]
CorruptFile == [exists |-> TRUE, content |-> None]
FileOf(cache_data) == [exists |-> TRUE, content |-> Some(cache_data)]

\* load_cache_data: read_to_string + serde_json::from_str
load_cache_data(f) ==
    IF f.exists /\ is_some(f.content)
    THEN [ok |-> TRUE, val |-> unwrap(f.content)]
    ELSE [ok |-> FALSE, val |-> [metadata |-> [last_updated |-> 0, etag |-> None,
                                               last_modified |-> None,
                                               cache_duration_hours |-> 0],
                                  holidays |-> EmptyMap]]

\* ---------------------------------------------------- refresh policy engine
\* Every should_refresh_* returns Result<bool>; probes counts the HEAD
\* requests the evaluation issued.
\* Variant: a last_updated in the future gives age 0 (saturating).
get_cache_age_hours_saturating(metadata) ==
    IF now < metadata.last_updated
    THEN AsU64(0)
    ELSE AsU64(num_hours(now - metadata.last_updated))

get_cache_age_hours(metadata) ==
    AsU64(num_hours(now - metadata.last_updated))

\* Variant: an evaluation that follows another one keeps the cache.
should_refresh_time_based_once(metadata) ==
    IF call.op = "should_refresh_cache"
    THEN [ok |-> TRUE, val |-> FALSE, probes |-> 0]
    ELSE [ok |-> TRUE,
          val |-> U64Gt(get_cache_age_hours(metadata), AsU64(config.max_age_hours)),
          probes |-> 0]

should_refresh_time_based(metadata) ==
    LET cache_age_hours == get_cache_age_hours(metadata)
        max_age_hours == AsU64(config.max_age_hours)
    IN  [ok |-> TRUE, val |-> U64Gt(cache_age_hours, max_age_hours), probes |-> 0]

\* check_remote_etag: Result<Option<String>> of one HEAD request
check_remote_etag(head) ==
    IF head = "send_err"
    THEN [ok |-> FALSE, val |-> None]
    ELSE IF head = "ok"
    THEN [ok |-> TRUE, val |-> header_string(remote.etag)]
    ELSE [ok |-> FALSE, val |-> None]

\* Variant: an unchanged ETag keeps the cache only up to max_age_hours.
should_refresh_etag_based_capped(metadata, head) ==
    IF is_none(metadata.etag)
    THEN should_refresh_time_based(metadata)
    ELSE LET probe == check_remote_etag(head)
         IN  IF probe.ok /\ is_some(probe.val)
             THEN [ok |-> TRUE,
                   val |-> \/ metadata.etag # Some(unwrap(probe.val))
                           \/ should_refresh_time_based(metadata).val,
                   probes |-> 1]
             ELSE [should_refresh_time_based(metadata) EXCEPT !.probes = 1]

\* Variant: a failed probe is propagated with `?` instead of falling back.
should_refresh_etag_based_propagating(metadata, head) ==
    IF is_none(metadata.etag)
    THEN should_refresh_time_based(metadata)
    ELSE LET probe == check_remote_etag(head)
         IN  IF probe.ok /\ is_some(probe.val)
             THEN [ok |-> TRUE, val |-> metadata.etag # Some(unwrap(probe.val)),
                   probes |-> 1]
             ELSE IF probe.ok
             THEN [should_refresh_time_based(metadata) EXCEPT !.probes = 1]
             ELSE [ok |-> FALSE, val |-> FALSE, probes |-> 1]

AsciiLower(text) == IF text = "ABC" THEN "abc" ELSE text

\* Variant: the two ETags are compared ignoring ASCII case.
should_refresh_etag_based_ignoring_case(metadata, head) ==
    IF is_none(metadata.etag)
    THEN should_refresh_time_based(metadata)
    ELSE LET probe == check_remote_etag(head)
         IN  IF probe.ok /\ is_some(probe.val)
             THEN [ok |-> TRUE,
                   val |-> AsciiLower(unwrap(metadata.etag)) # AsciiLower(unwrap(probe.val)),
                   probes |-> 1]
             ELSE [should_refresh_time_based(metadata) EXCEPT !.probes = 1]

\* Variant: the probe is made before looking at the cached ETag.
should_refresh_etag_based_probing_first(metadata, head) ==
    LET probe == check_remote_etag(head)
    IN  IF probe.ok /\ is_some(probe.val)
        THEN [ok |-> TRUE, val |-> metadata.etag # Some(unwrap(probe.val)),
              probes |-> 1]
        ELSE [should_refresh_time_based(metadata) EXCEPT !.probes = 1]

should_refresh_etag_based(metadata, head) ==
    IF is_none(metadata.etag)
    THEN should_refresh_time_based(metadata)
    ELSE LET probe == check_remote_etag(head)
         IN  IF probe.ok /\ is_some(probe.val)
             THEN [ok |-> TRUE, val |-> metadata.etag # Some(unwrap(probe.val)),
                   probes |-> 1]
             ELSE IF probe.ok
             THEN [should_refresh_time_based(metadata) EXCEPT !.probes = 1]
             ELSE [should_refresh_time_based(metadata) EXCEPT !.probes = 1]

\* Variant: a probe that fails forces a refresh.
should_refresh_hybrid_fail_closed(metadata, head) ==
    LET cache_age_hours == get_cache_age_hours(metadata)
    IN  IF U64Gt(cache_age_hours, AsU64(config.max_age_hours))
        THEN [ok |-> TRUE, val |-> TRUE, probes |-> 0]
        ELSE IF U64Gt(cache_age_hours, AsU64(config.etag_check_interval_hours))
        THEN IF is_some(metadata.etag) /\ ~check_remote_etag(head).ok
             THEN [ok |-> TRUE, val |-> TRUE, probes |-> 1]
             ELSE should_refresh_etag_based(metadata, head)
        ELSE [ok |-> TRUE, val |-> FALSE, probes |-> 0]

\* Variant: the ETag check starts at an age equal to the interval.
should_refresh_hybrid_interval_inclusive(metadata, head) ==
    LET cache_age_hours == get_cache_age_hours(metadata)
    IN  IF U64Gt(cache_age_hours, AsU64(config.max_age_hours))
        THEN [ok |-> TRUE, val |-> TRUE, probes |-> 0]
        ELSE IF ~U64Gt(AsU64(config.etag_check_interval_hours), cache_age_hours)
        THEN should_refresh_etag_based(metadata, head)
        ELSE [ok |-> TRUE, val |-> FALSE, probes |-> 0]

\* Variant: the ETag-check interval is tested before the maximum age.
should_refresh_hybrid_interval_first(metadata, head) ==
    LET cache_age_hours == get_cache_age_hours(metadata)
    IN  IF U64Gt(cache_age_hours, AsU64(config.etag_check_interval_hours))
        THEN should_refresh_etag_based(metadata, head)
        ELSE IF U64Gt(cache_age_hours, AsU64(config.max_age_hours))
        THEN [ok |-> TRUE, val |-> TRUE, probes |-> 0]
        ELSE [ok |-> TRUE, val |-> FALSE, probes |-> 0]

should_refresh_hybrid(metadata, head) ==
    LET cache_age_hours == get_cache_age_hours(metadata)
    IN  IF U64Gt(cache_age_hours, AsU64(config.max_age_hours))
        THEN [ok |-> TRUE, val |-> TRUE, probes |-> 0]
        ELSE IF U64Gt(cache_age_hours, AsU64(config.etag_check_interval_hours))
        THEN should_refresh_etag_based(metadata, head)
        ELSE [ok |-> TRUE, val |-> FALSE, probes |-> 0]

\* Variant: NeverRefresh gives way once the cache is older than max_age_hours.
should_refresh_cache_never_by_age(metadata, head) ==
    CASE config.strategy = "AlwaysRefresh" -> [ok |-> TRUE, val |-> TRUE, probes |-> 0]
      [] config.strategy = "NeverRefresh" -> should_refresh_time_based(metadata)
      [] config.strategy = "TimeBased" -> should_refresh_time_based(metadata)
      [] config.strategy = "EtagBased" -> should_refresh_etag_based(metadata, head)
      [] config.strategy = "Hybrid" -> should_refresh_hybrid(metadata, head)

should_refresh_cache(metadata, head) ==
    CASE config.strategy = "AlwaysRefresh" -> [ok |-> TRUE, val |-> TRUE, probes |-> 0]
      [] config.strategy = "NeverRefresh" -> [ok |-> TRUE, val |-> FALSE, probes |-> 0]
      [] config.strategy = "TimeBased" -> should_refresh_time_based(metadata)
      [] config.strategy = "EtagBased" -> should_refresh_etag_based(metadata, head)
      [] config.strategy = "Hybrid" -> should_refresh_hybrid(metadata, head)

\* Variant: the snapshot is saved without the response's ETag.
download_and_cache_dropping_etag(get, wr) ==
    IF get # "ok"
    THEN [ok |-> FALSE, val |-> EmptyMap, file |-> file, stage |-> get]
    ELSE The({
           LET cache_data ==
                 [metadata |-> [last_updated |-> now,
                                etag |-> None,
                                last_modified |-> header_string(remote.last_modified),
                                cache_duration_hours |-> config.max_age_hours],
                  holidays |-> parsed.val]
           IN  IF ~parsed.ok
               THEN [ok |-> FALSE, val |-> EmptyMap, file |-> file, stage |-> "parse_err"]
               ELSE IF wr = "mkdir_err" \/ wr = "open_err"
               THEN [ok |-> FALSE, val |-> EmptyMap, file |-> file, stage |-> wr]
               ELSE IF wr = "partial"
               THEN [ok |-> FALSE, val |-> EmptyMap, file |-> CorruptFile, stage |-> wr]
               ELSE [ok |-> TRUE, val |-> parsed.val, file |-> FileOf(cache_data),
                     stage |-> "saved"] :
           parsed \in { parse_csv(BodyText(remote.body)) } })

\* Variant: a non-2xx response is taken as an empty body and saved.
download_and_cache_ignoring_status(get, wr) ==
    IF get = "status_err"
    THEN [ok |-> TRUE, val |-> EmptyMap,
          file |-> FileOf([metadata |-> [last_updated |-> now, etag |-> None,
                                         last_modified |-> None,
                                         cache_duration_hours |-> config.max_age_hours],
                           holidays |-> EmptyMap]),
          stage |-> "status_err"]
    ELSE IF get # "ok"
    THEN [ok |-> FALSE, val |-> EmptyMap, file |-> file, stage |-> get]
    ELSE The({
           IF ~parsed.ok
           THEN [ok |-> FALSE, val |-> EmptyMap, file |-> file, stage |-> "parse_err"]
           ELSE IF wr = "mkdir_err" \/ wr = "open_err"
           THEN [ok |-> FALSE, val |-> EmptyMap, file |-> file, stage |-> wr]
           ELSE IF wr = "partial"
           THEN [ok |-> FALSE, val |-> EmptyMap, file |-> CorruptFile, stage |-> wr]
           ELSE [ok |-> TRUE, val |-> parsed.val,
                 file |-> FileOf(
                     [metadata |-> [last_updated |-> now,
                                    etag |-> header_string(remote.etag),
                                    last_modified |-> header_string(remote.last_modified),
                                    cache_duration_hours |-> config.max_age_hours],
                      holidays |-> parsed.val]),
                 stage |-> "saved"] :
           parsed \in { parse_csv(BodyText(remote.body)) } })

\* Variant: the cache file is created (truncated) before the GET is sent.
download_and_cache_truncating_first(get, wr) ==
    IF get # "ok"
    THEN [ok |-> FALSE, val |-> EmptyMap, file |-> CorruptFile, stage |-> get]
    ELSE The({
           IF ~parsed.ok
           THEN [ok |-> FALSE, val |-> EmptyMap, file |-> CorruptFile,
                 stage |-> "parse_err"]
           ELSE IF wr # "ok"
           THEN [ok |-> FALSE, val |-> EmptyMap, file |-> CorruptFile, stage |-> wr]
           ELSE [ok |-> TRUE, val |-> parsed.val,
                 file |-> FileOf(
                     [metadata |-> [last_updated |-> now,
                                    etag |-> header_string(remote.etag),
                                    last_modified |-> header_string(remote.last_modified),
                                    cache_duration_hours |-> config.max_age_hours],
                      holidays |-> parsed.val]),
                 stage |-> "saved"] :
           parsed \in { parse_csv(BodyText(remote.body)) } })

\* ------------------------------------------------------- download_and_cache
\* Result<HashMap> of one GET, parse and save, with the file it leaves.
\* stage names the step that returned.
download_and_cache(get, wr) ==
    IF get # "ok"
    THEN [ok |-> FALSE, val |-> EmptyMap, file |-> file, stage |-> get]
    ELSE The({
           LET cache_data ==
                 [metadata |-> [last_updated |-> now,
                                etag |-> header_string(remote.etag),
                                last_modified |-> header_string(remote.last_modified),
                                cache_duration_hours |-> config.max_age_hours],
                  holidays |-> parsed.val]
           IN  IF ~parsed.ok
               THEN [ok |-> FALSE, val |-> EmptyMap, file |-> file, stage |-> "parse_err"]
               ELSE IF wr = "mkdir_err" \/ wr = "open_err"
               THEN [ok |-> FALSE, val |-> EmptyMap, file |-> file, stage |-> wr]
               ELSE IF wr = "partial"
               THEN [ok |-> FALSE, val |-> EmptyMap, file |-> CorruptFile, stage |-> wr]
               ELSE [ok |-> TRUE, val |-> parsed.val, file |-> FileOf(cache_data),
                     stage |-> "saved"] :
           parsed \in { parse_csv(BodyText(remote.body)) } })

\* ------------------------------------------------------------- get_holidays
\* The record of one evaluation: the Result, the file left on disk, and what
\* the call did on the way (cache loaded, should_refresh_cache evaluated and
\* its answer, HEAD and GET requests issued, where the download stopped).
Outcome(ok, val, f, loaded, decision, probes, downloads, stage) ==
    [ok |-> ok, val |-> val, file |-> f, loaded |-> loaded, decision |-> decision,
     probes |-> probes, downloads |-> downloads, stage |-> stage]

Downloaded(loaded, decision, probes, get, wr) ==
    The({ Outcome(d.ok, d.val, d.file, loaded, decision, probes, 1, d.stage) :
          d \in { download_and_cache(get, wr) } })

\* Variant: a cache found fresh is saved again with last_updated = now.
get_holidays_touching(head, get, wr) ==
    IF config.force_refresh_on_startup \/ ~file.exists
    THEN Downloaded(FALSE, None, 0, get, wr)
    ELSE LET loaded == load_cache_data(file)
         IN  IF ~loaded.ok
             THEN Outcome(FALSE, EmptyMap, file, TRUE, None, 0, 0, "load_err")
             ELSE LET refresh == should_refresh_cache(loaded.val.metadata, head)
                  IN  IF refresh.val
                      THEN Downloaded(TRUE, Some("refresh"), refresh.probes, get, wr)
                      ELSE Outcome(TRUE, loaded.val.holidays,
                                   FileOf([loaded.val EXCEPT !.metadata.last_updated = now]),
                                   TRUE, Some("keep"), refresh.probes, 0, "cached")

\* Variant: force_refresh_on_startup is honoured only when no cache exists.
get_holidays_force_after_exists(head, get, wr) ==
    IF ~file.exists
    THEN Downloaded(FALSE, None, 0, get, wr)
    ELSE LET loaded == load_cache_data(file)
         IN  IF ~loaded.ok
             THEN Outcome(FALSE, EmptyMap, file, TRUE, None, 0, 0, "load_err")
             ELSE LET refresh == should_refresh_cache(loaded.val.metadata, head)
                  IN  IF refresh.val \/ config.force_refresh_on_startup
                      THEN Downloaded(TRUE, Some("refresh"), refresh.probes, get, wr)
                      ELSE Outcome(TRUE, loaded.val.holidays, file, TRUE, Some("keep"),
                                   refresh.probes, 0, "cached")

\* Variant: the strategy is consulted before the cache file is looked for,
\* and NeverRefresh without a cache file is an error.
get_holidays_strategy_first(head, get, wr) ==
    IF config.force_refresh_on_startup
    THEN Downloaded(FALSE, None, 0, get, wr)
    ELSE IF ~file.exists /\ config.strategy = "NeverRefresh"
    THEN Outcome(FALSE, EmptyMap, file, FALSE, None, 0, 0, "load_err")
    ELSE IF ~file.exists
    THEN Downloaded(FALSE, None, 0, get, wr)
    ELSE LET loaded == load_cache_data(file)
         IN  IF ~loaded.ok
             THEN Outcome(FALSE, EmptyMap, file, TRUE, None, 0, 0, "load_err")
             ELSE LET refresh == should_refresh_cache(loaded.val.metadata, head)
                  IN  IF refresh.val
                      THEN Downloaded(TRUE, Some("refresh"), refresh.probes, get, wr)
                      ELSE Outcome(TRUE, loaded.val.holidays, file, TRUE, Some("keep"),
                                   refresh.probes, 0, "cached")

\* Variant: a download that fails is attempted a second time.
DownloadedTwice(loaded, decision, probes, get, wr) ==
    The({ Outcome(d.ok, d.val, d.file, loaded, decision, probes,
                  IF d.ok THEN 1 ELSE 2, d.stage) :
          d \in { download_and_cache(get, wr) } })

get_holidays_retrying(head, get, wr) ==
    IF config.force_refresh_on_startup \/ ~file.exists
    THEN DownloadedTwice(FALSE, None, 0, get, wr)
    ELSE LET loaded == load_cache_data(file)
         IN  IF ~loaded.ok
             THEN Outcome(FALSE, EmptyMap, file, TRUE, None, 0, 0, "load_err")
             ELSE LET refresh == should_refresh_cache(loaded.val.metadata, head)
                  IN  IF refresh.val
                      THEN DownloadedTwice(TRUE, Some("refresh"), refresh.probes, get, wr)
                      ELSE Outcome(TRUE, loaded.val.holidays, file, TRUE, Some("keep"),
                                   refresh.probes, 0, "cached")

\* Variant: a cache file that does not load is replaced by a fresh download.
get_holidays_redownloading_corrupt(head, get, wr) ==
    IF config.force_refresh_on_startup \/ ~file.exists
    THEN Downloaded(FALSE, None, 0, get, wr)
    ELSE LET loaded == load_cache_data(file)
         IN  IF ~loaded.ok
             THEN Downloaded(TRUE, None, 0, "ok", "ok")
             ELSE LET refresh == should_refresh_cache(loaded.val.metadata, head)
                  IN  IF refresh.val
                      THEN Downloaded(TRUE, Some("refresh"), refresh.probes, get, wr)
                      ELSE Outcome(TRUE, loaded.val.holidays, file, TRUE, Some("keep"),
                                   refresh.probes, 0, "cached")

get_holidays(head, get, wr) ==
    IF config.force_refresh_on_startup
    THEN Downloaded(FALSE, None, 0, get, wr)
    ELSE IF ~file.exists
    THEN Downloaded(FALSE, None, 0, get, wr)
    ELSE LET loaded == load_cache_data(file)
         IN  IF ~loaded.ok
             THEN Outcome(FALSE, EmptyMap, file, TRUE, None, 0, 0, "load_err")
             ELSE LET refresh == should_refresh_cache(loaded.val.metadata, head)
                  IN  IF ~refresh.ok
                      THEN Outcome(FALSE, EmptyMap, file, TRUE, Some("err"),
                                   refresh.probes, 0, "refresh_err")
                      ELSE IF refresh.val
                      THEN Downloaded(TRUE, Some("refresh"), refresh.probes, get, wr)
                      ELSE Outcome(TRUE, loaded.val.holidays, file, TRUE, Some("keep"),
                                   refresh.probes, 0, "cached")

\* -------------------------------------------------------------------- Init
Configs ==
    [strategy : Strategies,
     max_age_hours : 1 .. MaxMaxAge,
     etag_check_interval_hours : 0 .. MaxInterval,
     force_refresh_on_startup : BOOLEAN]

\* Snapshots an earlier run may have left: written by download_and_cache
\* from BodyA, at some time up to MaxInitUpdated on this machine's clock
\* (later than InitNow when the clock has since been set back).
InitSnapshots ==
    { [metadata |-> [last_updated |-> t, etag |-> e, last_modified |-> None,
                     cache_duration_hours |-> c.max_age_hours],
       holidays |-> parse_csv(BodyA).val] :
        t \in 0 .. MaxInitUpdated, e \in { None, Some("abc") }, c \in Configs }

\* call describes the step that led to the current state when that step was
\* an initialize() call, and is NoCall after any other step: the Result it
\* returned, the metadata should_refresh_cache was given (None when it was
\* not evaluated), and what the call did on the way.  The map it returned is
\* holidays, the file it left is file.
CallRecord(op, metadata, prev_check, head, out) ==
    [op |-> op, metadata |-> metadata, prev_check |-> prev_check,
     head |-> IF out.probes > 0 THEN head ELSE "none",
     ok |-> out.ok, loaded |-> out.loaded, decision |-> out.decision,
     probes |-> out.probes, downloads |-> out.downloads, stage |-> out.stage]

NoCall ==
    CallRecord("none", None, None, "none",
               Outcome(TRUE, EmptyMap, NoFile, FALSE, None, 0, 0, "none"))

Init ==
    /\ config \in Configs
    /\ now = InitNow
    /\ file \in { NoFile, CorruptFile } \cup
                { FileOf(d) : d \in { x \in InitSnapshots :
                      x.metadata.cache_duration_hours = config.max_age_hours } }
    /\ holidays = None
    /\ remote \in Remotes
    /\ call = NoCall
    /\ history = [last_download |->
                      IF is_some(file.content)
                      THEN Some(unwrap(file.content).metadata.last_updated)
                      ELSE None,
                  last_check |-> None]

\* ----------------------------------------------------------------- actions
\* A response is an input of the call only when the call makes the request:
\* the HEAD response when the evaluation probes, the GET response when it
\* downloads, the file system's answer when the GET succeeded.
Evaluates ==
    /\ ~config.force_refresh_on_startup
    /\ file.exists
    /\ load_cache_data(file).ok

ProbeInputs ==
    IF Evaluates /\ should_refresh_cache(load_cache_data(file).val.metadata, "ok").probes > 0
    THEN HeadResponses ELSE { "ok" }

DownloadInputs(head) ==
    IF \/ config.force_refresh_on_startup
       \/ ~file.exists
       \/ Evaluates /\ should_refresh_cache(load_cache_data(file).val.metadata, head).val
    THEN GetResponses ELSE { "send_err" }

\* HolidayService::initialize: self.holidays = Some(get_holidays().await?)
Initialize ==
    \E head \in ProbeInputs :
      \E get \in DownloadInputs(head) :
      \E wr \in (IF get = "ok" THEN WriteResults ELSE { "ok" }) :
        \E out \in { get_holidays(head, get, wr) } :
            /\ file' = out.file
            /\ holidays' = IF out.ok THEN Some(out.val) ELSE holidays
            /\ call' = CallRecord("initialize",
                                   IF is_some(out.decision)
                                   THEN Some(load_cache_data(file).val.metadata)
                                   ELSE None,
                                   history.last_check, head, out)
            /\ history' =
                   [last_download |-> IF out.stage = "saved" THEN Some(now)
                                      ELSE history.last_download,
                    last_check |-> IF out.stage = "saved" THEN None
                                   ELSE IF out.probes > 0 /\ head # "send_err"
                                   THEN Some(now)
                                   ELSE history.last_check]
            /\ UNCHANGED << config, now, remote >>

\* HolidayService::new in a later run of the program: nothing loaded yet.
NewService ==
    /\ is_some(holidays)
    /\ holidays' = None
    /\ call' = NoCall
    /\ UNCHANGED << config, now, file, remote, history >>

\* The clock advances.
Tick ==
    /\ now < MaxTime
    /\ now' = now + 1
    /\ call' = NoCall
    /\ UNCHANGED << config, file, holidays, remote, history >>

\* The publisher replaces what the source URL serves.
RemotePublish ==
    /\ remote' \in Remotes \ { remote }
    /\ history' = [history EXCEPT !.last_check = None]
    /\ call' = NoCall
    /\ UNCHANGED << config, now, file, holidays >>

Next == Initialize \/ NewService \/ Tick \/ RemotePublish

Spec == Init /\ [][Next]_vars

\* ------------------------------------------------------------------ claims
\* The call that has just returned evaluated should_refresh_cache on a
\* loaded snapshot.
Evaluated == call.op = "initialize" /\ is_some(call.metadata)

EvaluatedUnder(strategy) == Evaluated /\ config.strategy = strategy

\* Whole hours from last_updated to now, rounded down, as a signed integer.
FloorAgeHours(metadata) == (now - metadata.last_updated) \div TicksPerHour

\* What the HEAD request of the call came back with.
ProbeFailed == call.head \in { "send_err", "status_err" }
ProbeGaveNoEtag == call.head = "ok" /\ is_none(header_string(remote.etag))
ProbeGaveEtag == call.head = "ok" /\ is_some(header_string(remote.etag))

Refreshes == call.decision = Some("refresh")
Keeps == call.decision = Some("keep")

\* C1: under EtagBased with a cached ETag, when the probe fails or comes back
\* without an ETag, should_refresh returns no error but the answer the
\* TimeBased evaluation gives for the same metadata; in particular it keeps
\* the cache when the age is max_age_hours - 1.
C1_EtagProbeFailsOpen ==
    (/\ EvaluatedUnder("EtagBased")
     /\ is_some(unwrap(call.metadata).etag)
     /\ (ProbeFailed \/ ProbeGaveNoEtag))
    => /\ call.probes = 1
       /\ call.decision \in { Some("refresh"), Some("keep") }
       /\ Refreshes <=> should_refresh_time_based(unwrap(call.metadata)).val
       /\ (FloorAgeHours(unwrap(call.metadata)) = config.max_age_hours - 1) => Keeps

C1_Witness ==
    /\ EvaluatedUnder("EtagBased")
    /\ is_some(unwrap(call.metadata).etag)
    /\ call.head = "send_err"
    /\ FloorAgeHours(unwrap(call.metadata)) = config.max_age_hours - 1
    /\ Keeps /\ call.ok

\* C2: under TimeBased, should_refresh is true exactly when the floored age
\* in hours is strictly greater than max_age_hours.
C2_TimeBasedIffOlder ==
    EvaluatedUnder("TimeBased")
    => (Refreshes <=> FloorAgeHours(unwrap(call.metadata)) > config.max_age_hours)

\* C3: under EtagBased with a cached ETag, when the probe returns an ETag,
\* should_refresh is true exactly when the two strings differ.
C3_EtagCompare ==
    (/\ EvaluatedUnder("EtagBased")
     /\ is_some(unwrap(call.metadata).etag)
     /\ ProbeGaveEtag)
    => /\ call.decision \in { Some("refresh"), Some("keep") }
       /\ Refreshes <=> unwrap(unwrap(call.metadata).etag) # unwrap(remote.etag).bytes

C3_Witness ==
    /\ EvaluatedUnder("EtagBased")
    /\ unwrap(call.metadata).etag = Some("abc")
    /\ ProbeGaveEtag
    /\ unwrap(remote.etag).bytes = "abc"
    /\ FloorAgeHours(unwrap(call.metadata)) = 1
    /\ Keeps

\* C4: under EtagBased with no cached ETag, should_refresh gives the
\* TimeBased answer and issues no HEAD request.
C4_NoEtagNoProbe ==
    (/\ EvaluatedUnder("EtagBased")
     /\ is_none(unwrap(call.metadata).etag))
    => /\ call.probes = 0
       /\ call.head = "none"
       /\ call.decision \in { Some("refresh"), Some("keep") }
       /\ Refreshes <=> should_refresh_time_based(unwrap(call.metadata)).val

C4_Witness ==
    /\ EvaluatedUnder("EtagBased")
    /\ is_none(unwrap(call.metadata).etag)
    /\ Refreshes
    /\ call.probes = 0

\* C5: under Hybrid, an age strictly greater than max_age_hours gives true
\* with no HEAD request.
C5_HybridForcesWhenOld ==
    (/\ EvaluatedUnder("Hybrid")
     /\ FloorAgeHours(unwrap(call.metadata)) > config.max_age_hours)
    => /\ Refreshes
       /\ call.probes = 0

C5_Witness ==
    /\ EvaluatedUnder("Hybrid")
    /\ FloorAgeHours(unwrap(call.metadata)) > config.max_age_hours
    /\ is_some(unwrap(call.metadata).etag)
    /\ Refreshes
    /\ call.probes = 0

\* The answer and the HEAD requests of the call are those of the EtagBased
\* rule on the same metadata.
DelegatedToEtagBased ==
    \E h \in HeadResponses :
        /\ call.probes > 0 => h = call.head
        /\ should_refresh_etag_based(unwrap(call.metadata), h).probes = call.probes
        /\ Refreshes <=> should_refresh_etag_based(unwrap(call.metadata), h).val

IntervalTicks == config.etag_check_interval_hours * TicksPerHour

\* C6: under Hybrid with an age not greater than max_age_hours, the decision
\* is delegated to the EtagBased rule once an ETag-check interval has
\* elapsed since the last completed check, and is otherwise false with no
\* HEAD request.  (Stated for the calls whose last check is known.)
C6_HybridSinceLastCheck ==
    (/\ EvaluatedUnder("Hybrid")
     /\ FloorAgeHours(unwrap(call.metadata)) <= config.max_age_hours
     /\ is_some(call.prev_check))
    => IF now - unwrap(call.prev_check) >= IntervalTicks
       THEN DelegatedToEtagBased
       ELSE Keeps /\ call.probes = 0

\* C7: under Hybrid, against the same snapshot and an unchanged source, a
\* HEAD request is never issued less than etag_check_interval_hours after
\* the previous one.
C7_OneProbePerInterval ==
    (/\ EvaluatedUnder("Hybrid")
     /\ call.probes > 0
     /\ is_some(call.prev_check))
    => now - unwrap(call.prev_check) >= IntervalTicks

DownloadFailures == { "send_err", "status_err", "body_err", "parse_err" }

\* C8: a call whose download fails (connection, status, body or parse
\* error) returns the error and leaves both the cache file and the
\* in-memory map as they were.
C8_FailedDownloadChangesNothing ==
    [][(call'.op = "initialize" /\ call'.stage \in DownloadFailures)
       => /\ ~call'.ok
          /\ call'.downloads = 1
          /\ file' = file
          /\ holidays' = holidays]_vars

C8_Witness ==
    /\ call.op = "initialize"
    /\ call.stage = "parse_err"
    /\ Refreshes
    /\ ~call.ok
    /\ is_some(holidays)
    /\ is_some(file.content)

\* C9: whenever the cache file holds a snapshot, its last_updated is the
\* time download_and_cache last succeeded; and a call that issues no GET
\* request leaves the whole file as it was.
C9_LastUpdatedIsLastDownload ==
    /\ [](is_some(file.content)
          => history.last_download = Some(unwrap(file.content).metadata.last_updated))
    /\ [][(call'.op = "initialize" /\ call'.downloads = 0) => file' = file]_vars

C9_Witness ==
    /\ call.op = "initialize"
    /\ call.probes = 1
    /\ call.downloads = 0
    /\ Keeps
    /\ is_some(file.content)
    /\ unwrap(file.content).metadata.last_updated < now
    /\ history.last_download = Some(unwrap(file.content).metadata.last_updated)

\* C10: with force_refresh_on_startup set, every call issues a GET request,
\* under every strategy and with or without a cache file, and neither loads
\* the cache nor evaluates should_refresh.
C10_ForceAlwaysDownloads ==
    (call.op = "initialize" /\ config.force_refresh_on_startup)
    => /\ call.downloads = 1
       /\ ~call.loaded
       /\ is_none(call.decision)
       /\ is_none(call.metadata)
       /\ call.probes = 0

C10_Witness ==
    /\ call.op = "initialize"
    /\ config.force_refresh_on_startup
    /\ config.strategy = "NeverRefresh"
    /\ call.stage = "send_err"
    /\ is_some(file.content)
    /\ call.downloads = 1

\* C11: saving is all-or-nothing: a call that started with a snapshot on disk
\* and got as far as downloading never leaves the cache file without one,
\* whatever happens to the write.
C11_SaveAllOrNothing ==
    [][(/\ call'.op = "initialize"
        /\ call'.downloads = 1
        /\ is_some(file.content))
       => is_some(file'.content)]_vars

\* C12: one call evaluates should_refresh_cache at most once, issues at most
\* one HEAD and at most one GET request; a GET follows an evaluation only
\* when its answer was true, and a download that fails is not repeated.
C12_OneDecisionOneDownload ==
    call.op = "initialize"
    => /\ call.downloads \in { 0, 1 }
       /\ call.probes \in { 0, 1 }
       /\ call.decision \in { None, Some("refresh"), Some("keep"), Some("err") }
       /\ is_some(call.decision) => (call.downloads = 1 <=> Refreshes)
       /\ is_none(call.decision) => call.probes = 0

C12_Witness ==
    /\ call.op = "initialize"
    /\ Refreshes
    /\ call.probes = 1
    /\ call.downloads = 1
    /\ call.stage = "send_err"
    /\ ~call.ok

\* C13: with force_refresh_on_startup off, a call that finds a cache file it
\* cannot read or decode returns the load error, issues no request, and
\* leaves the file and the in-memory map as they were.
C13_CorruptCacheSurfaced ==
    [][(/\ call'.op = "initialize"
        /\ file.exists
        /\ is_none(file.content)
        /\ ~config.force_refresh_on_startup)
       => /\ ~call'.ok
          /\ call'.stage = "load_err"
          /\ call'.downloads = 0
          /\ call'.probes = 0
          /\ file' = file
          /\ holidays' = holidays]_vars

C13_Witness ==
    /\ call.op = "initialize"
    /\ call.stage = "load_err"
    /\ ~call.ok
    /\ file = CorruptFile
    /\ config.strategy = "AlwaysRefresh"
    /\ ~config.force_refresh_on_startup
    /\ call.downloads = 0

\* ---------------------------------------------------- holiday lookup service
\* SUPPORTED_DATE_FORMATS, each format as its chrono items.  The three kanji
\* of the fourth format are written "<nen>", "<gatsu>" and "<nichi>", each
\* standing for one character.
FmtYmdCompact == << "%Y", "%m", "%d" >>
FmtYmdDash == << "%Y", "-", "%m", "-", "%d" >>
FmtYmdKanji == << "%Y", "<nen>", "%m", "<gatsu>", "%d", "<nichi>" >>
FmtMdySlash == << "%m", "/", "%d", "/", "%Y" >>
FmtDmySlash == << "%d", "/", "%m", "/", "%Y" >>
FmtYmdDot == << "%Y", ".", "%m", ".", "%d" >>

SUPPORTED_DATE_FORMATS ==
    << FmtYmdCompact, FmtYmdDash, FmtYmdSlash, FmtYmdKanji,
       FmtMdySlash, FmtDmySlash, FmtYmdDot >>

RECURSIVE try_formats(_, _)
\* for format in formats { if let Ok(date) = parse_from_str(..) { return } }
try_formats(date_str, formats) ==
    IF formats = << >> THEN None
    ELSE The({ IF is_some(date) THEN date ELSE try_formats(date_str, Tail(formats)) :
               date \in { parse_from_str(date_str, Head(formats)) } })

\* Variant: DD/MM/YYYY is tried before MM/DD/YYYY.
parse_date_flexible_day_first(date_str) ==
    try_formats(date_str,
                << FmtYmdCompact, FmtYmdDash, FmtYmdSlash, FmtYmdKanji,
                   FmtDmySlash, FmtMdySlash, FmtYmdDot >>)

\* Option<NaiveDate>: None is the "Invalid date format" error.
parse_date_flexible(date_str) == try_formats(date_str, SUPPORTED_DATE_FORMATS)

\* NaiveDate's ordering
DateLt(a, b) ==
    \/ a.y < b.y
    \/ a.y = b.y /\ a.m < b.m
    \/ a.y = b.y /\ a.m = b.m /\ a.d < b.d

DateLe(a, b) == a = b \/ DateLt(a, b)

\* NaiveDate::succ_opt: the next day, None after NaiveDate::MAX.
succ_opt(date) ==
    IF date.d < DaysInMonth(date.y, date.m)
    THEN Some([date EXCEPT !.d = date.d + 1])
    ELSE IF date.m < 12
    THEN Some([y |-> date.y, m |-> date.m + 1, d |-> 1])
    ELSE IF date.y < 262142
    THEN Some([y |-> date.y + 1, m |-> 1, d |-> 1])
    ELSE None

\* The Result of a query: err names the error returned ("none" on Ok), val
\* is the Ok value, parsed is what parse_date_flexible gave for each date
\* argument the call got as far as parsing.
QueryResult(ok, err, val, parsed) ==
    [ok |-> ok, err |-> err, val |-> val, parsed |-> parsed]

\* Variant: the map is searched for the date string as it was given.
get_holiday_raw_key(date) ==
    IF is_none(holidays)
    THEN QueryResult(FALSE, "not_initialized", << >>, << >>)
    ELSE The({ IF is_none(parsed_date)
               THEN QueryResult(FALSE, "invalid_date", << >>, << parsed_date >>)
               ELSE The({ IF is_some(found)
                          THEN QueryResult(TRUE, "none", << TRUE, found >>, << parsed_date >>)
                          ELSE QueryResult(TRUE, "none", << FALSE, None >>, << parsed_date >>) :
                          found \in { map_get(unwrap(holidays), date) } }) :
               parsed_date \in { parse_date_flexible(date) } })

\* Variant: a service that holds no map answers as if the map were empty.
get_holiday_defaulting(date) ==
    The({ IF is_none(parsed_date)
          THEN QueryResult(FALSE, "invalid_date", << >>, << parsed_date >>)
          ELSE The({ IF is_some(found)
                     THEN QueryResult(TRUE, "none", << TRUE, found >>, << parsed_date >>)
                     ELSE QueryResult(TRUE, "none", << FALSE, None >>, << parsed_date >>) :
                     found \in { IF is_some(holidays)
                                 THEN map_get(unwrap(holidays),
                                              format_ymd(unwrap(parsed_date)))
                                 ELSE None } }) :
          parsed_date \in { parse_date_flexible(date) } })

\* HolidayService::get_holiday: Result<(bool, Option<String>)>
get_holiday(date) ==
    IF is_none(holidays)
    THEN QueryResult(FALSE, "not_initialized", << >>, << >>)
    ELSE The({ IF is_none(parsed_date)
               THEN QueryResult(FALSE, "invalid_date", << >>, << parsed_date >>)
               ELSE The({ IF is_some(found)
                          THEN QueryResult(TRUE, "none", << TRUE, found >>, << parsed_date >>)
                          ELSE QueryResult(TRUE, "none", << FALSE, None >>, << parsed_date >>) :
                          found \in { map_get(unwrap(holidays),
                                              format_ymd(unwrap(parsed_date))) } }) :
               parsed_date \in { parse_date_flexible(date) } })

RECURSIVE range_walk(_, _, _, _)
\* while current <= end { push if a holiday; current = current.succ_opt()? }
range_walk(current, end, result, parsed) ==
    IF ~DateLe(current, end)
    THEN QueryResult(TRUE, "none", result, parsed)
    ELSE The({ IF is_none(next)
               THEN QueryResult(FALSE, "overflow", << >>, parsed)
               ELSE range_walk(unwrap(next), end, pushed, parsed) :
               next \in { succ_opt(current) },
               pushed \in { The({ The({ IF is_some(holiday_name)
                                        THEN Append(result, << date_str, unwrap(holiday_name) >>)
                                        ELSE result :
                                        holiday_name \in { map_get(unwrap(holidays), date_str) } }) :
                                  date_str \in { format_ymd(current) } }) } })

\* Variant: the order of the two bounds is not checked.
get_holidays_in_range_unchecked(start_date, end_date) ==
    IF is_none(holidays)
    THEN QueryResult(FALSE, "not_initialized", << >>, << >>)
    ELSE The({ IF is_none(start)
               THEN QueryResult(FALSE, "invalid_date", << >>, << start >>)
               ELSE The({ IF is_none(end)
                          THEN QueryResult(FALSE, "invalid_date", << >>, << start, end >>)
                          ELSE range_walk(unwrap(start), unwrap(end), << >>, << start, end >>) :
                          end \in { parse_date_flexible(end_date) } }) :
               start \in { parse_date_flexible(start_date) } })

\* HolidayService::get_holidays_in_range: Result<Vec<(String, String)>>
get_holidays_in_range(start_date, end_date) ==
    IF is_none(holidays)
    THEN QueryResult(FALSE, "not_initialized", << >>, << >>)
    ELSE The({ IF is_none(start)
               THEN QueryResult(FALSE, "invalid_date", << >>, << start >>)
               ELSE The({ IF is_none(end)
                          THEN QueryResult(FALSE, "invalid_date", << >>, << start, end >>)
                          ELSE IF DateLt(unwrap(end), unwrap(start))
                          THEN QueryResult(FALSE, "invalid_range", << >>, << start, end >>)
                          ELSE range_walk(unwrap(start), unwrap(end), << >>, << start, end >>) :
                          end \in { parse_date_flexible(end_date) } }) :
               start \in { parse_date_flexible(start_date) } })

\* ------------------------------------------------------------ query inputs
\* Date strings a caller passes to the service.
Q20230101Dash == << "2", "0", "2", "3", "-", "0", "1", "-", "0", "1" >>
Q20230101Compact == << "2", "0", "2", "3", "0", "1", "0", "1" >>
Q20230109Slash == << "2", "0", "2", "3", "/", "0", "1", "/", "0", "9" >>
Q20230101Kanji == << "2", "0", "2", "3", "<nen>", "1", "<gatsu>", "1", "<nichi>" >>
Q01022023 == << "0", "1", "/", "0", "2", "/", "2", "0", "2", "3" >>
Q13012023 == << "1", "3", "/", "0", "1", "/", "2", "0", "2", "3" >>
Q20230211Dot == << "2", "0", "2", "3", ".", "0", "2", ".", "1", "1" >>
Q20230230Dash == << "2", "0", "2", "3", "-", "0", "2", "-", "3", "0" >>
QGarbage == << "t", "o", "d", "a", "y" >>
QMaxDate == << "+", "2", "6", "2", "1", "4", "2", "-", "1", "2", "-", "3", "1" >>
Q20230110Dash == << "2", "0", "2", "3", "-", "0", "1", "-", "1", "0" >>

QueryDates ==
    { Q20230101Dash, Q20230101Compact, Q20230109Slash, Q20230101Kanji, Q01022023,
      Q13012023, Q20230211Dot, Q20230230Dash, QGarbage, QMaxDate, Q20230110Dash }

RangeDates ==
    { Q20230101Dash, Q01022023, Q20230109Slash, Q20230110Dash, Q20230230Dash, QMaxDate }

\* The pairs of bounds passed to get_holidays_in_range.  A range that ends at
\* NaiveDate::MAX starts there (or is rejected before the walk): the walk
\* from 2023 is some 95 million days long.
RangeInputs ==
    { r \in RangeDates \X RangeDates :
        r[2] = QMaxDate => r[1] \in { QMaxDate, Q20230230Dash } }

\* ------------------------------------------------- the service with queries
\* The queries read the map and nothing else, so the service is run under
\* the two strategies that need no clock, from an absent or unreadable cache.
ServiceConfigs ==
    { c \in Configs :
        /\ c.strategy \in { "AlwaysRefresh", "NeverRefresh" }
        /\ c.max_age_hours = 1
        /\ c.etag_check_interval_hours = 0
        /\ ~c.force_refresh_on_startup }

InitService ==
    /\ config \in ServiceConfigs
    /\ now = InitNow
    /\ file \in { NoFile, CorruptFile }
    /\ holidays = None
    /\ remote \in Remotes
    /\ call = NoCall
    /\ history = [last_download |-> None, last_check |-> None]

\* The record of a query that has just returned.
QueryRecord(op, args, out) ==
    [op |-> op, args |-> args, ok |-> out.ok, err |-> out.err, val |-> out.val,
     parsed |-> out.parsed]

GetHoliday ==
    \E date \in QueryDates :
      \E out \in { get_holiday(date) } :
        /\ call' = QueryRecord("get_holiday", << date >>, out)
        /\ UNCHANGED << config, now, file, holidays, remote, history >>

GetHolidaysInRange ==
    \E r \in RangeInputs :
      \E out \in { get_holidays_in_range(r[1], r[2]) } :
        /\ call' = QueryRecord("get_holidays_in_range", r, out)
        /\ UNCHANGED << config, now, file, holidays, remote, history >>

NextService ==
    Initialize \/ NewService \/ RemotePublish \/ GetHoliday \/ GetHolidaysInRange

SpecService == InitService /\ [][NextService]_vars

\* ------------------------------------------------- claims about the queries
\* The query that has just returned got as far as parsing n date arguments.
ParsedArgs(n) == Len(call.parsed) = n

\* C14: on a service that holds no map (initialize never called, or called
\* and failed), get_holiday and get_holidays_in_range return an error for
\* every input and no lookup result.
C14_QueryBeforeInitialize ==
    (call.op \in { "get_holiday", "get_holidays_in_range" } /\ is_none(holidays))
    => /\ ~call.ok
       /\ call.err = "not_initialized"
       /\ call.val = << >>

C14_Witness ==
    /\ call.op = "get_holidays_in_range"
    /\ call.args = << Q20230101Dash, Q20230109Slash >>
    /\ is_none(holidays)
    /\ file = CorruptFile
    /\ ~call.ok

\* C15: on an initialized service, for every date string that parses,
\* get_holiday returns (true, Some(name)) exactly when the map holds the
\* canonical key of the date with value name, and (false, None) otherwise.
C15_PointLookup ==
    (/\ call.op = "get_holiday"
     /\ is_some(holidays)
     /\ is_some(parse_date_flexible(call.args[1])))
    => /\ call.ok
       /\ LET key == format_ymd(unwrap(parse_date_flexible(call.args[1])))
              entries == { p \in unwrap(holidays) : p[1] = key }
          IN  IF entries # { }
              THEN \E p \in entries : call.val = << TRUE, Some(p[2]) >>
              ELSE call.val = << FALSE, None >>

C15_Witness ==
    /\ call.op = "get_holiday"
    /\ call.args = << Q20230101Compact >>
    /\ is_some(holidays)
    /\ << << "2", "0", "2", "3", "-", "0", "1", "-", "0", "1" >>, << "N", "Y" >> >>
           \in unwrap(holidays)
    /\ call.val = << TRUE, Some(<< "N", "Y" >>) >>

\* The date a canonical key stands for.
KeyDate(key) == unwrap(parse_from_str(key, FmtYmdDash))

\* C16: for all valid start <= end, get_holidays_in_range returns exactly
\* the holidays of the map dated within [start, end], in strictly ascending
\* date order (so: no duplicates, one entry or none when start = end).
C16_RangeLookup ==
    (/\ call.op = "get_holidays_in_range"
     /\ is_some(holidays)
     /\ is_some(parse_date_flexible(call.args[1]))
     /\ is_some(parse_date_flexible(call.args[2]))
     /\ DateLe(unwrap(parse_date_flexible(call.args[1])),
               unwrap(parse_date_flexible(call.args[2]))))
    => /\ call.ok
       /\ LET start == unwrap(parse_date_flexible(call.args[1]))
              end == unwrap(parse_date_flexible(call.args[2]))
              expected == { p \in unwrap(holidays) :
                              /\ DateLe(start, KeyDate(p[1]))
                              /\ DateLe(KeyDate(p[1]), end) }
          IN  /\ { call.val[i] : i \in DOMAIN call.val } = expected
              /\ Len(call.val) = Cardinality(expected)
              /\ \A i, j \in DOMAIN call.val :
                    i < j => DateLt(KeyDate(call.val[i][1]), KeyDate(call.val[j][1]))

\* The same for the ranges that do not end on the last representable date.
RangeLookupBelowMax ==
    call.op = "get_holidays_in_range" /\ call.args[2] # QMaxDate => C16_RangeLookup

AcceptedOrder ==
    << << "%Y", "%m", "%d" >>,
       << "%Y", "-", "%m", "-", "%d" >>,
       << "%Y", "/", "%m", "/", "%d" >>,
       << "%Y", "<nen>", "%m", "<gatsu>", "%d", "<nichi>" >>,
       << "%m", "/", "%d", "/", "%Y" >>,
       << "%d", "/", "%m", "/", "%Y" >>,
       << "%Y", ".", "%m", ".", "%d" >> >>

\* What the earliest format of AcceptedOrder that parses s gives for it.
FirstAccepted(s) ==
    LET hits == { i \in DOMAIN AcceptedOrder : is_some(parse_from_str(s, AcceptedOrder[i])) }
    IN  IF hits = { } THEN None
        ELSE parse_from_str(s, AcceptedOrder[CHOOSE i \in hits : \A j \in hits : i <= j])

\* C18: every date argument a query parses resolves to what the earliest
\* accepted format that parses it gives; 01/02/2023 is 2 January 2023.
C18_FormatPriority ==
    (call.op \in { "get_holiday", "get_holidays_in_range" } /\ is_some(holidays))
    => /\ \A i \in DOMAIN call.parsed : call.parsed[i] = FirstAccepted(call.args[i])
       /\ ParsedArgs(0) = FALSE
       /\ call.args[1] = Q01022023
             => call.parsed[1] = Some([y |-> 2023, m |-> 1, d |-> 2])

C18_Witness ==
    /\ call.op = "get_holiday"
    /\ call.args = << Q01022023 >>
    /\ is_some(holidays)
    /\ call.parsed = << Some([y |-> 2023, m |-> 1, d |-> 2]) >>
    /\ is_some(parse_from_str(Q01022023, FmtDmySlash))
    /\ call.ok

\* ------------------------------------------------------ the parser on its own
\* Rows a response body may hold, and the bodies of up to MaxRows rows made
\* of them: the header, two rows for the same date, a date that does not
\* exist, a row of one field and a row of three.
MaxRows == 3

CsvRows ==
    { HeaderRow,
      << D20230101, << "N", "Y" >> >>,
      << D20230101, << "N", "D" >> >>,
      << D20230230, << "X" >> >>,
      << D20230211 >>,
      << D20230211, << "F", "D" >>, << "x" >> >> }

CsvInputs == UNION { [1 .. n -> CsvRows] : n \in 0 .. MaxRows }

\* parse_csv applied to one body.
ParseCsv ==
    \E csv_content \in CsvInputs :
      \E out \in { parse_csv(csv_content) } :
        /\ call' = [op |-> "parse_csv", csv_content |-> csv_content,
                    ok |-> out.ok, val |-> out.val]
        /\ UNCHANGED << config, now, file, holidays, remote, history >>

NextParser == ParseCsv

SpecParser == InitService /\ [][NextParser]_vars

RECURSIVE InsertedRows(_, _)
\* The map after inserting, in input order, (canonical key, field 2) for
\* every row of rows with at least two fields whose field 1 is a date.
InsertedRows(rows, map) ==
    IF rows = << >> THEN map
    ELSE IF Len(Head(rows)) >= 2 /\ is_some(parse_from_str(Head(rows)[1], FmtYmdSlash))
    THEN InsertedRows(Tail(rows),
             { p \in map : p[1] # format_ymd(unwrap(parse_from_str(Head(rows)[1], FmtYmdSlash))) }
             \cup { << format_ymd(unwrap(parse_from_str(Head(rows)[1], FmtYmdSlash))),
                       Head(rows)[2] >> })
    ELSE InsertedRows(Tail(rows), map)

\* C20: the parser returns the map holding (canonical key, field 2) for every
\* row with at least two fields whose field 1 is a YYYY/MM/DD date, wherever
\* the row stands; of several rows for one date the last wins, without error.
C20_ParserInsertsEveryRow ==
    call.op = "parse_csv"
    => /\ call.ok
       /\ call.val = InsertedRows(call.csv_content, { })

\* The same for the rows after the first, in a body whose rows all have as
\* many fields as the first.
ParsesRowsAfterFirst ==
    (/\ call.op = "parse_csv"
     /\ call.csv_content # << >>
     /\ \A i \in DOMAIN call.csv_content :
           Len(call.csv_content[i]) = Len(call.csv_content[1]))
    => /\ call.ok
       /\ call.val = InsertedRows(Tail(call.csv_content), { })

\* ------------------------------------------------------- the cache file text
\* serde_json on CacheData, character by character.  "<soh>" stands for the
\* one character U+0001 and "<metadata>" for the serialised metadata object,
\* which the map's encoding does not depend on.
Quote == "\""
Backslash == "\\"

\* the characters below U+0020 among those the names are made of
ControlChars == { "\n", "\t", "<soh>" }

\* Variant: only the quote is escaped.
escape_char_quote_only(c) ==
    IF c = Quote THEN << Backslash, Quote >> ELSE << c >>

\* serde_json format_escaped_str_contents, for one character
escape_char(c) ==
    CASE c = Quote -> << Backslash, Quote >>
      [] c = Backslash -> << Backslash, Backslash >>
      [] c = "\n" -> << Backslash, "n" >>
      [] c = "\t" -> << Backslash, "t" >>
      [] c = "<soh>" -> << Backslash, "u", "0", "0", "0", "1" >>
      [] OTHER -> << c >>

RECURSIVE format_escaped_str_contents(_)
format_escaped_str_contents(s) ==
    IF s = << >> THEN << >>
    ELSE escape_char(Head(s)) \o format_escaped_str_contents(Tail(s))

format_escaped_str(s) == << Quote >> \o format_escaped_str_contents(s) \o << Quote >>

KeyMetadata == << "m", "e", "t", "a", "d", "a", "t", "a" >>
KeyHolidays == << "h", "o", "l", "i", "d", "a", "y", "s" >>

Indent(n) == [i \in 1 .. 2 * n |-> " "]

RECURSIVE serialize_entries(_, _)
\* PrettyFormatter: the entries of the holidays object, in iteration order
serialize_entries(entries, first) ==
    IF entries = << >> THEN << >>
    ELSE (IF first THEN << "\n" >> ELSE << ",", "\n" >>)
         \o Indent(2) \o format_escaped_str(Head(entries)[1])
         \o << ":", " " >> \o format_escaped_str(Head(entries)[2])
         \o serialize_entries(Tail(entries), FALSE)

serialize_map(entries) ==
    IF entries = << >> THEN << "{", "}" >>
    ELSE << "{" >> \o serialize_entries(entries, TRUE) \o << "\n" >> \o Indent(1) \o << "}" >>

\* serde_json::to_string_pretty(&cache_data); entries is the HashMap's
\* iteration order.
to_string_pretty(entries) ==
    << "{", "\n" >> \o Indent(1) \o format_escaped_str(KeyMetadata)
    \o << ":", " ", "<metadata>", ",", "\n" >>
    \o Indent(1) \o format_escaped_str(KeyHolidays) \o << ":", " " >>
    \o serialize_map(entries) \o << "\n", "}" >>

\* ---- reading it back
ParseFail == [ok |-> FALSE, val |-> << >>, rest |-> << >>]

RECURSIVE skip_ws(_)
skip_ws(s) ==
    IF s # << >> /\ Head(s) \in { " ", "\n", "\t", "\r" } THEN skip_ws(Tail(s)) ELSE s

RECURSIVE parse_str_contents(_, _)
\* serde_json parse_str after the opening quote: up to the closing quote,
\* undoing escapes; a raw control character is an error.
parse_str_contents(s, acc) ==
    IF s = << >> THEN ParseFail
    ELSE IF Head(s) = Quote THEN [ok |-> TRUE, val |-> acc, rest |-> Tail(s)]
    ELSE IF Head(s) = Backslash
    THEN IF Len(s) < 2 THEN ParseFail
         ELSE IF s[2] \in { Quote, Backslash, "/" }
         THEN parse_str_contents(Drop(s, 2), Append(acc, s[2]))
         ELSE IF s[2] = "n" THEN parse_str_contents(Drop(s, 2), Append(acc, "\n"))
         ELSE IF s[2] = "t" THEN parse_str_contents(Drop(s, 2), Append(acc, "\t"))
         ELSE IF s[2] = "u" /\ Len(s) >= 6 /\ SubSeq(s, 3, 6) = << "0", "0", "0", "1" >>
         THEN parse_str_contents(Drop(s, 6), Append(acc, "<soh>"))
         ELSE ParseFail
    ELSE IF Head(s) \in ControlChars THEN ParseFail
    ELSE parse_str_contents(Tail(s), Append(acc, Head(s)))

parse_string(s0) ==
    The({ IF s # << >> /\ Head(s) = Quote
          THEN parse_str_contents(Tail(s), << >>)
          ELSE ParseFail :
          s \in { skip_ws(s0) } })

\* one punctuation character or token, after white space
expect_char(s0, c) ==
    The({ IF s # << >> /\ Head(s) = c
          THEN [ok |-> TRUE, val |-> c, rest |-> Tail(s)]
          ELSE ParseFail :
          s \in { skip_ws(s0) } })

RECURSIVE parse_map_entries(_, _)
\* MapAccess for HashMap<String, String>: key, colon, value, then a comma
\* and more, or the closing brace; a repeated key overwrites.
parse_map_entries(s, map) ==
    The({ IF ~k.ok THEN ParseFail
          ELSE The({ IF ~colon.ok THEN ParseFail
                     ELSE The({ IF ~v.ok THEN ParseFail
                                ELSE IF expect_char(v.rest, ",").ok
                                THEN parse_map_entries(expect_char(v.rest, ",").rest,
                                                       map_insert(map, k.val, v.val))
                                ELSE IF expect_char(v.rest, "}").ok
                                THEN [ok |-> TRUE, val |-> map_insert(map, k.val, v.val),
                                      rest |-> expect_char(v.rest, "}").rest]
                                ELSE ParseFail :
                                v \in { parse_string(colon.rest) } }) :
                     colon \in { expect_char(k.rest, ":") } }) :
          k \in { parse_string(s) } })

parse_map(s) ==
    The({ IF ~open.ok THEN ParseFail
          ELSE IF expect_char(open.rest, "}").ok
          THEN [ok |-> TRUE, val |-> EmptyMap, rest |-> expect_char(open.rest, "}").rest]
          ELSE parse_map_entries(open.rest, EmptyMap) :
          open \in { expect_char(s, "{") } })

RECURSIVE expect_all(_, _)
\* the items of a fixed prefix in order: a key (several characters, read as
\* a JSON string) or one punctuation character or token
expect_all(s, items) ==
    IF items = << >> THEN [ok |-> TRUE, val |-> << >>, rest |-> s]
    ELSE The({ IF r.ok /\ r.val = Head(items)
               THEN expect_all(r.rest, Tail(items))
               ELSE ParseFail :
               r \in { IF Len(Head(items)) > 1
                       THEN parse_string(s)
                       ELSE The({ [ok |-> c.ok, val |-> << c.val >>, rest |-> c.rest] :
                                  c \in { expect_char(s, Head(items)[1]) } }) } })

\* serde_json::from_str::<CacheData>(&content), for a document with the two
\* fields in the order to_string_pretty writes them
from_str(content) ==
    The({ IF ~head.ok THEN [ok |-> FALSE, val |-> EmptyMap]
          ELSE The({ IF m.ok /\ expect_char(m.rest, "}").ok
                       /\ skip_ws(expect_char(m.rest, "}").rest) = << >>
                     THEN [ok |-> TRUE, val |-> m.val]
                     ELSE [ok |-> FALSE, val |-> EmptyMap] :
                     m \in { parse_map(head.rest) } }) :
          head \in { expect_all(content, << << "{" >>, KeyMetadata, << ":" >>,
                                           << "<metadata>" >>, << "," >>,
                                           KeyHolidays, << ":" >> >>) } })

\* ------------------------------------------------ saving and loading a map
\* Names a CSV field may hold, with the characters JSON escapes.
CodecNames ==
    { << "N", "Y" >>,
      << >>,
      << Quote, "a" >>,
      << Backslash, "n" >>,
      << "a", "\n", "b" >>,
      << "\t", Backslash >>,
      << "<soh>" >>,
      << "/", "u" >> }

CodecKeys ==
    { << "2", "0", "2", "3", "-", "0", "1", "-", "0", "1" >>,
      << "2", "0", "2", "3", "-", "0", "1", "-", "0", "9" >> }

\* The maps with keys among CodecKeys and names among CodecNames.
CodecMaps ==
    UNION { { { << k, f[k] >> : k \in ks } : f \in [ks -> CodecNames] } :
            ks \in SUBSET CodecKeys }

\* The orders in which a HashMap may hand out its entries.
IterationOrders(map) ==
    { order \in [1 .. Cardinality(map) -> map] :
        \A i, j \in DOMAIN order : i # j => order[i] # order[j] }

\* A service that holds a map, before anything is saved.
InitCodec ==
    /\ config \in ServiceConfigs
    /\ now = InitNow
    /\ file = NoFile
    /\ holidays \in { Some(m) : m \in CodecMaps }
    /\ remote \in Remotes
    /\ call = NoCall
    /\ history = [last_download |-> None, last_check |-> None]

\* The cache file as the text written to it.
TextFile(json) == [exists |-> TRUE, text |-> json]

\* download_and_cache from `let cache_data` on: serialise and write.
SaveSnapshot ==
    /\ ~file.exists
    /\ \E order \in IterationOrders(unwrap(holidays)) :
         \E json \in { to_string_pretty(order) } :
           /\ file' = TextFile(json)
           /\ call' = [op |-> "save", ok |-> TRUE, val |-> unwrap(holidays)]
    /\ UNCHANGED << config, now, holidays, remote, history >>

\* load_cache_data: read the text and decode it.
LoadSnapshot ==
    /\ \E out \in { IF file.exists THEN from_str(file.text)
                    ELSE [ok |-> FALSE, val |-> EmptyMap] } :
         call' = [op |-> "load_cache_data", ok |-> out.ok, val |-> out.val]
    /\ UNCHANGED << config, now, file, holidays, remote, history >>

NextCodec == SaveSnapshot \/ LoadSnapshot

SpecCodec == InitCodec /\ [][NextCodec]_vars

\* C19: loading a snapshot that was just saved gives the map that was saved,
\* same keys and same names, for every map and every order of its entries.
C19_SaveLoadRoundTrip ==
    (call.op = "load_cache_data" /\ file.exists)
    => /\ call.ok
       /\ call.val = unwrap(holidays)

C19_Witness ==
    /\ call.op = "load_cache_data"
    /\ file.exists
    /\ call.ok
    /\ Cardinality(call.val) = 2
    /\ \E p \in call.val : p[2] = << Backslash, "n" >>
    /\ \E p \in call.val : p[2] = << "a", "\n", "b" >>
    /\ call.val = unwrap(holidays)

\* C21: rows whose date field does not parse, the header row and malformed
\* rows (too few or too many fields) among them, are skipped: the parser
\* returns Ok with the map of the remaining valid rows.  (Stated for bodies
\* that begin with the header row.)
C21_BadRowsSkipped ==
    (/\ call.op = "parse_csv"
     /\ call.csv_content # << >>
     /\ Head(call.csv_content) = HeaderRow)
    => /\ call.ok
       /\ call.val = InsertedRows(call.csv_content, { })

\* The same for the bodies whose rows all have two fields.
BadDatesSkipped ==
    (call.op = "parse_csv" /\ \A i \in DOMAIN call.csv_content :
                                  Len(call.csv_content[i]) = 2)
    => C21_BadRowsSkipped

\* C22: parsing an empty input returns Ok with an empty map.
C22_EmptyInputEmptyMap ==
    (call.op = "parse_csv" /\ call.csv_content = << >>)
    => /\ call.ok
       /\ call.val = { }

C22_Witness ==
    /\ call.op = "parse_csv"
    /\ call.csv_content = << >>
    /\ call.ok
    /\ call.val = { }

\* -------------------------------------------- more claims about the engine
\* C23: a non-2xx status is an error.  On the download the call returns the
\* error, no map, and the cache file and the in-memory map stay as they
\* were; on the probe check_remote_etag returns an error, not Ok(None).
C23_BadStatusIsError ==
    [][(call'.op = "initialize")
       => /\ (call'.stage = "status_err")
                => /\ ~call'.ok
                   /\ call'.downloads = 1
                   /\ file' = file
                   /\ holidays' = holidays
          /\ (call'.head = "status_err")
                => /\ call'.probes = 1
                   /\ ~check_remote_etag(call'.head).ok
                   /\ is_none(check_remote_etag(call'.head).val)]_vars

C23_Witness ==
    /\ call.op = "initialize"
    /\ call.head = "status_err"
    /\ call.stage = "status_err"
    /\ Refreshes
    /\ ~call.ok
    /\ is_some(file.content)

\* C24: should_refresh is true for every metadata under AlwaysRefresh and
\* false for every metadata under NeverRefresh, without a probe.
C24_AlwaysAndNever ==
    /\ EvaluatedUnder("AlwaysRefresh") => (Refreshes /\ call.probes = 0)
    /\ EvaluatedUnder("NeverRefresh") => (Keeps /\ call.probes = 0)

C24_Witness ==
    /\ EvaluatedUnder("NeverRefresh")
    /\ is_some(unwrap(call.metadata).etag)
    /\ FloorAgeHours(unwrap(call.metadata)) > config.max_age_hours
    /\ Keeps
    /\ call.probes = 0

\* C27: with no cache file every strategy downloads, NeverRefresh included,
\* without evaluating should_refresh; NeverRefresh goes without a download
\* only when a cache file is there and force_refresh_on_startup is off, and
\* then serves the loadable cache.
C27_AbsentFileDownloads ==
    [][(call'.op = "initialize")
       => /\ ~file.exists
                => /\ call'.downloads = 1
                   /\ is_none(call'.decision)
                   /\ ~call'.loaded
          /\ (config.strategy = "NeverRefresh" /\ call'.downloads = 0)
                => (file.exists /\ ~config.force_refresh_on_startup)
          /\ (/\ config.strategy = "NeverRefresh"
              /\ is_some(file.content)
              /\ ~config.force_refresh_on_startup)
                => /\ call'.downloads = 0
                   /\ call'.decision = Some("keep")
                   /\ holidays' = Some(unwrap(file.content).holidays)]_vars

C27_Witness ==
    /\ call.op = "initialize"
    /\ config.strategy = "NeverRefresh"
    /\ ~config.force_refresh_on_startup
    /\ call.downloads = 1
    /\ is_none(call.decision)
    /\ call.stage = "saved"

\* C28: under EtagBased, a probe that returns the cached ETag gives false at
\* every age, also above max_age_hours.
C28_SameEtagAnyAge ==
    (/\ EvaluatedUnder("EtagBased")
     /\ is_some(unwrap(call.metadata).etag)
     /\ ProbeGaveEtag
     /\ unwrap(call.metadata).etag = header_string(remote.etag))
    => /\ Keeps
       /\ call.probes = 1

C28_Witness ==
    /\ EvaluatedUnder("EtagBased")
    /\ ProbeGaveEtag
    /\ unwrap(call.metadata).etag = header_string(remote.etag)
    /\ FloorAgeHours(unwrap(call.metadata)) > config.max_age_hours
    /\ Keeps

\* The cache age exceeds limit: the signed whole hours from last_updated to
\* now (rounded toward zero) read as an unsigned 64-bit number, compared
\* with a configured number of hours.
AgeExceeds(metadata, limit) ==
    IF now - metadata.last_updated <= 0 - TicksPerHour
    THEN TRUE
    ELSE IF now < metadata.last_updated
    THEN 0 > limit
    ELSE (now - metadata.last_updated) \div TicksPerHour > limit

C30_WideIntervalNoProbe ==
    (/\ EvaluatedUnder("Hybrid")
     /\ config.etag_check_interval_hours >= config.max_age_hours)
    => /\ call.probes = 0
       /\ call.head = "none"
       /\ Refreshes <=> AgeExceeds(unwrap(call.metadata), config.max_age_hours)
       /\ Refreshes <=> should_refresh_time_based(unwrap(call.metadata)).val

C30_Witness ==
    /\ EvaluatedUnder("Hybrid")
    /\ config.etag_check_interval_hours >= config.max_age_hours
    /\ is_some(unwrap(call.metadata).etag)
    /\ FloorAgeHours(unwrap(call.metadata)) = config.etag_check_interval_hours
    /\ Keeps
    /\ call.probes = 0

\* ------------------------------------------- should_refresh_cache on its own
\* How many evaluations in a row, with no time passing, are followed.
MaxEvaluations == 2

\* A cache with a loadable snapshot, force_refresh_on_startup off.
InitEvaluate ==
    /\ config \in { c \in Configs : ~c.force_refresh_on_startup }
    /\ now = InitNow
    /\ file \in { FileOf(d) : d \in { x \in InitSnapshots :
                      x.metadata.cache_duration_hours = config.max_age_hours } }
    /\ holidays = None
    /\ remote \in Remotes
    /\ call = NoCall
    /\ history = [last_download |-> Some(unwrap(file.content).metadata.last_updated),
                  last_check |-> None]

\* should_refresh_cache(&self, &metadata) on the metadata of the cache file:
\* nth counts the evaluations since the clock last moved, previous is the
\* answer of the one before.
ShouldRefresh ==
    /\ call.op = "should_refresh_cache" => call.nth < MaxEvaluations
    /\ \E head \in ProbeInputs :
         \E refresh \in { should_refresh_cache(load_cache_data(file).val.metadata, head) } :
           call' = [op |-> "should_refresh_cache",
                    nth |-> IF call.op = "should_refresh_cache" THEN call.nth + 1 ELSE 1,
                    previous |-> IF call.op = "should_refresh_cache"
                                 THEN Some(call.val) ELSE None,
                    ok |-> refresh.ok, val |-> refresh.val, probes |-> refresh.probes]
    /\ UNCHANGED << config, now, file, holidays, remote, history >>

NextEvaluate == ShouldRefresh \/ Tick

SpecEvaluate == InitEvaluate /\ [][NextEvaluate]_vars

Writers == { "first", "second" }

\* The maps the two downloads may have parsed: what the source served
\* before and after a holiday was added or removed.
RefreshMaps == { m \in CodecMaps : \A entry \in m : entry[2] = << "N", "Y" >> }

RefreshTexts ==
    UNION { { to_string_pretty(order) : order \in IterationOrders(m) } : m \in RefreshMaps }

InitConcurrent ==
    /\ config \in ServiceConfigs
    /\ now = InitNow
    /\ file = NoFile
    /\ holidays = None
    /\ remote \in Remotes
    /\ call \in { [op |-> "refresh", pc |-> [w \in Writers |-> "serialised"], json |-> j] :
                  j \in [Writers -> RefreshTexts] }
    /\ history = [last_download |-> None, last_check |-> None]

\* write(2) of buf at offset 0 of a file holding old
Overwrite(old, buf) ==
    IF Len(old) > Len(buf) THEN buf \o Drop(old, Len(buf)) ELSE buf

\* File::create(&self.cache_path)
CreateFile(w) ==
    /\ call.pc[w] = "serialised"
    /\ file' = TextFile(<< >>)
    /\ call' = [call EXCEPT !.pc[w] = "created"]
    /\ UNCHANGED << config, now, holidays, remote, history >>

\* file.write_all(json)
WriteAll(w) ==
    /\ call.pc[w] = "created"
    /\ file' = TextFile(Overwrite(file.text, call.json[w]))
    /\ call' = [call EXCEPT !.pc[w] = "written"]
    /\ UNCHANGED << config, now, holidays, remote, history >>

NextConcurrent == \E w \in Writers : CreateFile(w) \/ WriteAll(w)

SpecConcurrent == InitConcurrent /\ [][NextConcurrent]_vars

\* C26: when two refreshes write the same cache file concurrently, the file
\* holds, once both have completed, the complete snapshot of one of them and
\* never a mix of the two.
C26_ConcurrentWritesSerialized ==
    (call.op = "refresh" /\ \A w \in Writers : call.pc[w] = "written")
    => /\ \E w \in Writers : file.text = call.json[w]
       /\ from_str(file.text).ok

\* The same when the two texts are equally long.
EqualLengthWritesWhole ==
    (/\ call.op = "refresh"
     /\ \A w \in Writers : call.pc[w] = "written"
     /\ \A v, w \in Writers : Len(call.json[v]) = Len(call.json[w]))
    => \E w \in Writers : file.text = call.json[w]

\* ------------------------------------------- the cache age as a u64
\* max_age_hours and etag_check_interval_hours are u64 fields of the public
\* CacheConfig, so a caller can set them up to u64::MAX.  TLC's integers
\* are narrower than 64 bits: the u64 value 2^64 - k is held as the integer
\* -k, the i64 with the same bits, and AsU64 gives its limbs.
TopOfU64(k) == 0 - k

\* The latest last_updated of a snapshot found on disk.
MaxFutureUpdated == 8

AgeConfigs ==
    [strategy : Strategies,
     max_age_hours : { 1, MaxMaxAge, TopOfU64(1), TopOfU64(2) },
     etag_check_interval_hours : 0 .. MaxInterval,
     force_refresh_on_startup : { FALSE }]

AgeSnapshots ==
    { [metadata |-> [last_updated |-> t, etag |-> e, last_modified |-> None,
                     cache_duration_hours |-> c.max_age_hours],
       holidays |-> parse_csv(BodyA).val] :
        t \in 0 .. MaxFutureUpdated, e \in { None, Some("abc") }, c \in AgeConfigs }

InitAge ==
    /\ config \in AgeConfigs
    /\ now = InitNow
    /\ file \in { FileOf(d) : d \in { x \in AgeSnapshots :
                      x.metadata.cache_duration_hours = config.max_age_hours } }
    /\ holidays = None
    /\ remote \in Remotes
    /\ call = NoCall
    /\ history = [last_download |-> Some(unwrap(file.content).metadata.last_updated),
                  last_check |-> None]

SpecAge == InitAge /\ [][NextEvaluate]_vars

\* What an evaluation was given, and the whole hours by which last_updated
\* lies ahead of now.
AgeMetadata == load_cache_data(file).val.metadata
SinceUpdated == now - AgeMetadata.last_updated
HoursAhead == (0 - SinceUpdated) \div TicksPerHour
EvaluatedAhead == call.op = "should_refresh_cache" /\ SinceUpdated < 0

\* 2^64 - k as a u64, for 0 < k < LimbBase
WrappedBy(k) == << LimbBase - 1, LimbBase - 1, LimbBase - 1, LimbBase - k >>

\* max_age_hours < 2^64 - k
MaxAgeBelowWrapped(k) ==
    config.max_age_hours >= 0 \/ config.max_age_hours < 0 - k

TopMaxAgeKeeps ==
    /\ EvaluatedAhead
    /\ HoursAhead = 1
    /\ config.strategy = "TimeBased"
    /\ config.max_age_hours = TopOfU64(1)
    /\ call.ok
    /\ ~call.val

\* ------------------------------------------------------ after a download
\* The state a successful download_and_cache leaves, and the get_holidays
\* call that follows it with the clock and the source as they were.
JustDownloaded == call.op = "initialize" /\ call.stage = "saved"

FreshStrategies == { "TimeBased", "EtagBased", "Hybrid", "NeverRefresh" }

SnapshotOfResponse ==
    /\ call.ok
    /\ call.downloads = 1
    /\ is_some(file.content)
    /\ is_some(holidays)
    /\ unwrap(file.content).holidays = unwrap(holidays)
    /\ unwrap(holidays) = parse_csv(BodyText(remote.body)).val
    /\ unwrap(file.content).metadata.etag = header_string(remote.etag)
    /\ unwrap(file.content).metadata.last_updated = now

ServedFromCache ==
    /\ call'.ok
    /\ call'.loaded
    /\ call'.decision = Some("keep")
    /\ call'.downloads = 0
    /\ call'.stage = "cached"
    /\ holidays' = holidays
    /\ file' = file

\* C32: after a successful download the persisted snapshot holds the
\* downloaded map together with the ETag header of that same response, and
\* a get_holidays that follows with no elapsed time and an unchanged remote
\* ETag decides not to refresh under TimeBased, EtagBased, Hybrid and
\* NeverRefresh and returns the same map from the cache without downloading.
C32_FreshAfterDownload ==
    /\ [](JustDownloaded => SnapshotOfResponse)
    /\ [][(/\ JustDownloaded
           /\ config.strategy \in FreshStrategies
           /\ call'.op = "initialize")
          => ServedFromCache]_vars

\* C32 for a configuration that does not force the download: with
\* force_refresh_on_startup off, the call that follows a successful download
\* with no elapsed time and an unchanged source keeps the cache under
\* TimeBased, EtagBased, Hybrid and NeverRefresh, whatever the probe
\* answers, and returns the same map without a GET request.
C32_FreshAfterDownloadUnforced ==
    /\ [](JustDownloaded => SnapshotOfResponse)
    /\ [][(/\ JustDownloaded
           /\ config.strategy \in FreshStrategies
           /\ ~config.force_refresh_on_startup
           /\ call'.op = "initialize")
          => ServedFromCache]_vars

\* A call that kept a snapshot downloaded from body B at the current time,
\* after a probe that returned the ETag saved with it.
C32_Witness ==
    /\ call.op = "initialize"
    /\ call.stage = "cached"
    /\ config.strategy = "EtagBased"
    /\ ~config.force_refresh_on_startup
    /\ call.probes = 1
    /\ call.head = "ok"
    /\ Keeps
    /\ is_some(file.content)
    /\ unwrap(file.content).holidays = parse_csv(BodyB).val
    /\ unwrap(file.content).metadata.last_updated = now
    /\ is_some(unwrap(file.content).metadata.etag)
    /\ unwrap(file.content).metadata.etag = header_string(remote.etag)
    /\ holidays = Some(parse_csv(BodyB).val)

====
